---- MODULE Spec2Model ----
(***************************************************************************)
(* Model of cumulusci/salesforce_api/tooling_retrieve.py (ToolingApiTask)  *)
(* and of RetrieveProfile._run_task, its caller: the two-phase permission  *)
(* resolution, the bounded worker pool that runs a batch of queries, and   *)
(* the fallback of one query from the synchronous endpoint to the bulk     *)
(* transport.                                                              *)
(*                                                                         *)
(* Python values: a str is a TLA+ string, a list is a sequence, a dict     *)
(* that is iterated (queries, futures) is a sequence of entries in         *)
(* insertion order, a row is a function from field names to values.  A     *)
(* field that is None holds NULL; a variable that may be None holds None   *)
(* or Some(value).                                                         *)
(***************************************************************************)
EXTENDS Integers, Sequences, FiniteSets, TLC

VARIABLES
    pc,          \* position of the main thread (RetrieveProfile._run_task)
    profiles,    \* self.profiles
    batch,       \* 0: no batch yet, 1: discovery batch, 2: resolution batch,
                 \* 3: a batch of a caller other than the resolver
    queries,     \* the dict handed to _run_queries_in_parallel, insertion order
    futures,     \* the futures dict of the current batch, submission order
    results,     \* what the current _run_queries_in_parallel call returned
    discovery,   \* `result` of _retrieve_permissionable_entities (phase 1)
    buckets,     \* setupEntityAccess_dict of _process_setupEntityAccess_results
    entities,    \* permissionable_entities / entities_to_be_retrieved
    error,       \* the exception that left the main thread, or NULL
    faults,      \* number of endpoint calls that raised and failed their query so far
    args         \* the arguments of a function called on its own, or NULL

vars == <<pc, profiles, batch, queries, futures, results, discovery, buckets,
          entities, error, faults, args>>

NULL == "<None>"
None == <<>>
Some(v) == <<v>>

(***************************************************************************)
(* Bounds of the model.                                                    *)
(***************************************************************************)
MaxSetupRows == 2    \* longest freely chosen list of setup-entity-access rows
MaxPages == 2        \* most result pages of one bulk batch
MaxFaults == 2       \* most endpoint calls that raise in one run and fail their query
MaxFallbacks == 1    \* most queries of one batch that the sync endpoint refuses

(***************************************************************************)
(* Python str and list helpers.                                            *)
(***************************************************************************)
Char(s, i) == SubSeq(s, i, i)

IsSpace(c) == c = " "

\* str.upper of one character
UpperLetters ==
    [a |-> "A", b |-> "B", c |-> "C", d |-> "D", e |-> "E", f |-> "F", g |-> "G",
     h |-> "H", i |-> "I", j |-> "J", k |-> "K", l |-> "L", m |-> "M", n |-> "N",
     o |-> "O", p |-> "P", q |-> "Q", r |-> "R", s |-> "S", t |-> "T", u |-> "U",
     v |-> "V", w |-> "W", x |-> "X", y |-> "Y", z |-> "Z"]

UpperChar(c) == IF c \in DOMAIN UpperLetters THEN UpperLetters[c] ELSE c

RECURSIVE StrUpper(_)
StrUpper(s) ==
    IF Len(s) = 0 THEN ""
    ELSE IF Len(s) = 1 THEN UpperChar(s)
    ELSE StrUpper(SubSeq(s, 1, Len(s) \div 2)) \o StrUpper(SubSeq(s, Len(s) \div 2 + 1, Len(s)))

\* s.find(sub): the lowest index (from 0) where sub occurs in s, or -1
StrFind(s, sub) ==
    LET hits == { i \in 1..(Len(s) - Len(sub) + 1) : SubSeq(s, i, i + Len(sub) - 1) = sub }
    IN  IF hits = {} THEN -1
        ELSE (CHOOSE i \in hits : \A j \in hits : i <= j) - 1

RECURSIVE StrLStrip(_)
StrLStrip(s) ==
    IF Len(s) > 0 /\ IsSpace(Char(s, 1)) THEN StrLStrip(SubSeq(s, 2, Len(s))) ELSE s

RECURSIVE StrRStrip(_)
StrRStrip(s) ==
    IF Len(s) > 0 /\ IsSpace(Char(s, Len(s))) THEN StrRStrip(SubSeq(s, 1, Len(s) - 1)) ELSE s

StrStrip(s) == StrRStrip(StrLStrip(s))

\* s.split(): the maximal runs of non-space characters, in order
RECURSIVE StrSplit(_)
StrSplit(s) ==
    LET t == StrLStrip(s)
        at == StrFind(t, " ")
        stop == IF at = -1 THEN Len(t) + 1 ELSE at + 1
    IN  IF Len(t) = 0 THEN <<>>
        ELSE <<SubSeq(t, 1, stop - 1)>> \o StrSplit(SubSeq(t, stop, Len(t)))

\* sep.join(items)
RECURSIVE StrJoin(_, _)
StrJoin(sep, items) ==
    IF Len(items) = 0 THEN ""
    ELSE IF Len(items) = 1 THEN items[1]
    ELSE items[1] \o sep \o StrJoin(sep, Tail(items))

RECURSIVE Flatten(_)
Flatten(lists) ==
    IF Len(lists) = 0 THEN <<>> ELSE Head(lists) \o Flatten(Tail(lists))

Range(seq) == { seq[i] : i \in 1..Len(seq) }

(***************************************************************************)
(* The static descriptors (MetadataInfo) and the module constants.         *)
(***************************************************************************)
MetadataInfo(columns, table_name, package_xml_name, id_field) ==
    [columns |-> columns, table_name |-> table_name,
     package_xml_name |-> package_xml_name, id_field |-> id_field]

APEXCLASS == MetadataInfo(<<"Name", "NamespacePrefix">>, "ApexClass", "ApexClass", "Id")
APEXPAGE == MetadataInfo(<<"Name", "NamespacePrefix">>, "ApexPage", "ApexPage", "Id")
CUSTOMPERMISSION ==
    MetadataInfo(<<"DeveloperName", "NamespacePrefix">>, "CustomPermission",
                 "CustomPermission", "Id")
TABSET ==
    MetadataInfo(<<"Name", "NamespacePrefix">>, "AppMenuItem", "CustomApplication",
                 "ApplicationId")
CONNECTEDAPPLICATION ==
    MetadataInfo(<<"Name", "NamespacePrefix">>, "AppMenuItem", "CustomApplication",
                 "ApplicationId")
EXTERNALDATASOURCE ==
    MetadataInfo(<<"DeveloperName", "NamespacePrefix">>, "ExternalDataSource",
                 "ExternalDataSource", "Id")
FLOWDEFINITION == MetadataInfo(<<"ApiName">>, "FlowDefinitionView", "Flow", "Id")

\* SETUP_ENTITY_TYPES.keys(), in insertion order
SETUP_ENTITY_KEYS ==
    <<"ApexClass", "ApexPage", "CustomPermission", "TabSet", "ConnectedApplication",
      "ExternalDataSource", "FlowDefinition">>

SETUP_ENTITY_TYPES ==
    [k \in Range(SETUP_ENTITY_KEYS) |->
        CASE k = "ApexClass" -> APEXCLASS
          [] k = "ApexPage" -> APEXPAGE
          [] k = "CustomPermission" -> CUSTOMPERMISSION
          [] k = "TabSet" -> TABSET
          [] k = "ConnectedApplication" -> CONNECTEDAPPLICATION
          [] k = "ExternalDataSource" -> EXTERNALDATASOURCE
          [] k = "FlowDefinition" -> FLOWDEFINITION]

SETUP_ENTITY_QUERY_NAME == "setupEntityAccess"
SOBJECT_TYPE == "CustomObject"
SOBJECT_QUERY_NAME == "sObject"
CUSTOM_TAB_TYPE == "CustomTab"
CUSTOM_TAB_QUERY_NAME == "customTab"

(***************************************************************************)
(* _build_query.  `where` is the filter dict in insertion order: each      *)
(* entry has a key and either a list of items (list |-> TRUE) or a scalar  *)
(* value.  The result is the query text, or the ValueError raised.         *)
(***************************************************************************)
Returned(v) == [ok |-> TRUE, value |-> v]
Raised(kind, msg) == [ok |-> FALSE, kind |-> kind, msg |-> msg]

Quoted(items) == [i \in 1..Len(items) |-> "'" \o items[i] \o "'"]

Condition(entry) ==
    IF entry.list
    THEN entry.key \o " IN (" \o StrJoin(", ", Quoted(entry.value)) \o ")"
    ELSE entry.key \o " = '" \o entry.value \o "'"

WhereClause(where) ==
    IF Len(where) = 0 THEN ""
    ELSE "WHERE " \o StrJoin(" AND ", [i \in 1..Len(where) |-> Condition(where[i])])

\* variant: no validation of the arguments
BuildQueryUnvalidated(columns, table_name, where) ==
    Returned("SELECT " \o StrJoin(", ", columns) \o " FROM " \o table_name
             \o " " \o WhereClause(where))

_build_query(columns, table_name, where) ==
    IF Len(columns) = 0 THEN Raised("ValueError", "Columns list cannot be empty")
    ELSE IF Len(table_name) = 0 THEN Raised("ValueError", "Table name cannot be empty")
    ELSE Returned("SELECT " \o StrJoin(", ", columns) \o " FROM " \o table_name
                  \o " " \o WhereClause(where))

ListFilter(key, items) == [key |-> key, list |-> TRUE, value |-> items]

(***************************************************************************)
(* _extract_table_name_from_query.                                         *)
(***************************************************************************)
\* (from_index is bound by \in so that the text is searched once)
_extract_table_name_from_query(query) ==
    LET FromAt(from_index) ==
            IF from_index # -1
            THEN LET rest == StrStrip(SubSeq(query, from_index + Len("FROM") + 1,
                                             Len(query)))
                     words == StrSplit(rest)
                 IN  IF Len(words) = 0
                     THEN Raised("IndexError", "list index out of range")
                     ELSE Returned(words[1])
            ELSE Raised("ValueError", "Invalid query format. 'FROM' clause not found.")
    IN  CHOOSE result \in { FromAt(from_index) :
                               from_index \in {StrFind(StrUpper(query), "FROM")} } : TRUE

(***************************************************************************)
(* Python dict helpers: a dict is a sequence of [key, value] entries in    *)
(* insertion order, with unique keys.                                      *)
(***************************************************************************)
DictKeys(d) == { d[i].key : i \in 1..Len(d) }

DictGet(d, k) == d[CHOOSE i \in 1..Len(d) : d[i].key = k].value

\* d[k] = v: replaces the value of an existing key in place, appends a new key
DictSet(d, k, v) ==
    IF k \in DictKeys(d)
    THEN [i \in 1..Len(d) |-> IF d[i].key = k THEN [key |-> k, value |-> v] ELSE d[i]]
    ELSE Append(d, [key |-> k, value |-> v])

\* d.pop(k, None)
DictPop(d, k) == SelectSeq(d, LAMBDA e : e.key # k)

\* d.update(other)
RECURSIVE DictUpdate(_, _)
DictUpdate(d, other) ==
    IF Len(other) = 0 THEN d
    ELSE DictUpdate(DictSet(d, Head(other).key, Head(other).value), Tail(other))

(***************************************************************************)
(* The organization behind the two endpoints.  It reads a query text as    *)
(* SOQL: the selected columns, the table and the quoted values of the      *)
(* filter.  Discovery tables hold any of a small set of row lists; a       *)
(* resolution table holds one record per entity id.                        *)
(***************************************************************************)
\* the places (from 1) in text[lo..hi] where sep starts
Positions(text, sep, lo, hi) ==
    { i \in lo..(hi - Len(sep) + 1) : SubSeq(text, i, i + Len(sep) - 1) = sep }

\* the k-th of the pieces text[lo..hi] falls into when cut at each sep
Piece(text, sep, lo, hi, k) ==
    LET at == Positions(text, sep, lo, hi)
        nth(n) == CHOOSE p \in at : Cardinality({ q \in at : q <= p }) = n
    IN  SubSeq(text,
               IF k = 1 THEN lo ELSE nth(k - 1) + Len(sep),
               IF k = Cardinality(at) + 1 THEN hi ELSE nth(k) - 1)

\* the pieces of text[lo..hi] between the occurrences of sep, in order
StrSplitOn(text, sep, lo, hi) ==
    [k \in 1..(Cardinality(Positions(text, sep, lo, hi)) + 1) |->
        Piece(text, sep, lo, hi, k)]

\* the table: the word after FROM
SoqlTable(text) ==
    LET lo == StrFind(text, " FROM ") + Len(" FROM ") + 1
        word == Positions(text, " ", lo, Len(text))
    IN  SubSeq(text, lo, IF word = {} THEN Len(text)
                         ELSE (CHOOSE i \in word : \A j \in word : i <= j) - 1)

\* the selected columns: the list between SELECT and FROM
SoqlColumns(text) ==
    StrSplitOn(text, ", ", Len("SELECT ") + 1, StrFind(text, " FROM "))

\* the quoted values of the filter: the list between (' and ')
SoqlQuoted(text) ==
    IF StrFind(text, "('") = -1 THEN <<>>
    ELSE StrSplitOn(text, "', '", StrFind(text, "('") + Len("('") + 1, StrFind(text, "')"))

\* ThreadPoolExecutor(max_workers=num_threads)
num_threads == 4

EntityIds == <<"e1", "e2">>

\* the namespace prefix of the record behind an entity id
OrgPrefix(id) == IF id = "e1" THEN "ns" ELSE NULL

OrgRecord(table, columns, id) ==
    [c \in Range(columns) |->
        IF c = "NamespacePrefix" THEN OrgPrefix(id) ELSE table \o "_" \o id]

\* (table, columns and ids are bound by \in so that the text is read once)
OrgRecords(text) ==
    CHOOSE records \in
        { [i \in 1..Len(ids) |-> OrgRecord(table, columns, ids[i])] :
             table \in {SoqlTable(text)}, columns \in {SoqlColumns(text)},
             ids \in {SoqlQuoted(text)} } : TRUE

\* the id of an entity of a type the code does not resolve
UnknownEntityId == "x9"

\* a SetupEntityAccess row
SetupEntityAccessRow(type, id) == [SetupEntityType |-> type, SetupEntityId |-> id]

\* the access rows an answer is made of, in the order the organization holds
\* them: two ids of one known type, a type that selects no prefix column, a
\* type the code does not resolve, and an id granted a second time
SetupEntityAccessRows ==
    << SetupEntityAccessRow("TabSet", "e1"), SetupEntityAccessRow("TabSet", "e2"),
       SetupEntityAccessRow("FlowDefinition", "e1"),
       SetupEntityAccessRow("CustomEntityDefinition", UnknownEntityId),
       SetupEntityAccessRow("TabSet", "e1") >>

\* the ways to pick up to MaxSetupRows of the rows, kept in order
RowSelections ==
    { idx \in UNION { [1..n -> 1..Len(SetupEntityAccessRows)] : n \in 0..MaxSetupRows } :
        \A i, j \in 1..Len(idx) : i < j => idx[i] < idx[j] }

\* one access row for each of the first num_threads + 1 known types: a
\* resolution batch with more queries than the pool has threads
WideRowList ==
    [i \in 1..(num_threads + 1) |->
        SetupEntityAccessRow(SETUP_ENTITY_KEYS[i], EntityIds[1 + (i % 2)])]

SetupRowLists ==
    { [i \in 1..Len(idx) |-> SetupEntityAccessRows[idx[i]]] : idx \in RowSelections }
        \cup {WideRowList}

SObjectRowLists == { <<>>, <<[SobjectType |-> "Account"], [SobjectType |-> "Contact"]>> }

TabRowLists == { <<>>, <<[Name |-> "standard-Account"]>> }

\* the row lists the organization may answer a query text with
OrgAnswers(text) ==
    UNION { CASE t = "SetupEntityAccess" -> SetupRowLists
              [] t = "ObjectPermissions" -> SObjectRowLists
              [] t = "PermissionSetTabSetting" -> TabRowLists
              [] OTHER -> { OrgRecords(text) } : t \in {SoqlTable(text)} }

\* the ways to cut rows into exactly n non-empty result pages
RECURSIVE Pagings(_, _)
Pagings(rows, n) ==
    IF n = 0 THEN (IF Len(rows) = 0 THEN { <<>> } ELSE {})
    ELSE UNION { { <<SubSeq(rows, 1, k)>> \o rest :
                    rest \in Pagings(SubSeq(rows, k + 1, Len(rows)), n - 1) } :
                 k \in 1..Len(rows) }

\* get_all_results_for_query_batch: the rows in up to MaxPages pages; no row
\* comes as no page or as one empty page
BulkPagings(rows) ==
    IF Len(rows) = 0 THEN { <<>>, << <<>> >> }
    ELSE UNION { Pagings(rows, n) : n \in 1..MaxPages }

(***************************************************************************)
(* The worker pool (ThreadPoolExecutor) and one query's path through       *)
(* _run_query and _run_bulk_query.  A future's `st` names the step its     *)
(* worker takes next; `sync` is how sf.query ended; `value` is what         *)
(* _run_query returned (None, or Some(rows) for {"records": rows}); `job`  *)
(* is the state of its bulk job; `pages` are the result pages the bulk     *)
(* transport held for it; `log` lists the steps taken, in order.           *)
(***************************************************************************)
SubmitFuture(q) ==
    [name |-> q.key, query |-> q.value, st |-> "queued", sync |-> "", value |-> None,
     exc |-> "", job |-> "none", table |-> "", pages |-> None, log |-> <<>>]

FellBack(f) == "extract" \in Range(f.log)

Finished(f) == f.st \in {"returned", "raised"}

\* a worker has started _run_query for it, which has neither returned nor raised
Running(f) == f.st \notin {"queued", "returned", "raised"}

InFlight(futs) == Cardinality({ i \in 1..Len(futs) : Running(futs[i]) })

\* variant: a pool that starts every submitted work item at once
CanStartUnbounded(futs, i) ==
    /\ futs[i].st = "queued"
    /\ \A j \in 1..(i - 1) : futs[j].st # "queued"

\* a worker thread takes the oldest queued work item, if a thread is free
CanStart(futs, i) ==
    /\ futs[i].st = "queued"
    /\ \A j \in 1..(i - 1) : futs[j].st # "queued"
    /\ InFlight(futs) < num_threads

\* variant: `except Exception` in _run_query
IsAnyError(kind) == kind \in {"SalesforceGeneralError", "SalesforceMalformedRequest"}

\* _run_query: the except clause that sends a query to the bulk path
IsFallbackError(kind) == kind = "SalesforceGeneralError"

SyncErrors == {"SalesforceGeneralError", "SalesforceMalformedRequest"}

AfterSyncReturn(f, rows) ==
    [f EXCEPT !.st = "returned", !.sync = "returned", !.value = Some(rows),
              !.log = Append(@, "sf.query")]

\* _run_bulk_query starts with the table name, taken from the query text
AfterExtract(f) ==
    LET t == _extract_table_name_from_query(f.query)
        log == f.log \o <<"sf.query", "extract">>
    IN  IF t.ok
        THEN [f EXCEPT !.st = "create_query_job", !.table = t.value, !.log = log]
        ELSE [f EXCEPT !.st = "raised", !.exc = t.kind, !.log = log]

AfterSyncRaise(f, kind) ==
    IF IsFallbackError(kind)
    THEN AfterExtract([f EXCEPT !.sync = kind])
    ELSE [f EXCEPT !.st = "raised", !.sync = kind, !.exc = kind,
                   !.log = Append(@, "sf.query")]

\* _run_bulk_query: the step after each transport call that returned
AfterCreateJob(f) ==
    [f EXCEPT !.st = "bulk.query", !.job = "open",
              !.log = Append(@, "bulk.create_query_job")]

AfterBulkQuery(f) ==
    [f EXCEPT !.st = "wait_for_batch", !.log = Append(@, "bulk.query")]

AfterWaitForBatch(f) ==
    [f EXCEPT !.st = "close_job", !.log = Append(@, "bulk.wait_for_batch")]

AfterCloseJob(f) ==
    [f EXCEPT !.st = "get_all_results", !.job = "closed",
              !.log = Append(@, "bulk.close_job")]

\* the loop over the result pages returns inside its first iteration; with
\* no page the function ends without a return statement
BulkResult(pages) == IF Len(pages) = 0 THEN None ELSE Some(pages[1])

AfterGetResults(f, pages) ==
    [f EXCEPT !.st = "returned", !.value = BulkResult(pages), !.pages = Some(pages),
              !.log = Append(@, "bulk.get_all_results_for_query_batch")]

\* a transport call that raises ends _run_bulk_query and _run_query
AfterBulkRaise(f, call) ==
    [f EXCEPT !.st = "raised", !.exc = "BulkApiError", !.log = Append(@, call)]

(***************************************************************************)
(* _run_queries_in_parallel after the pool is shut down: the loop over     *)
(* the futures, in submission order.                                       *)
(***************************************************************************)
\* variant: the wait ends as soon as one work item has raised
ExecutorJoinedOrFailed(futs, qs) ==
    /\ Len(futs) = Len(qs)
    /\ \/ \A i \in 1..Len(futs) : Finished(futs[i])
       \/ \E i \in 1..Len(futs) : futs[i].st = "raised"

\* leaving the `with` block waits for every submitted work item
ExecutorJoined(futs, qs) ==
    /\ Len(futs) = Len(qs)
    /\ \A i \in 1..Len(futs) : Finished(futs[i])

\* future.result() re-raises; None["records"] is a TypeError
HarvestCause(f) == IF f.st = "raised" THEN f.exc ELSE "TypeError"

\* an exception that leaves the main thread
Error(kind, query_name, cause) == [kind |-> kind, query_name |-> query_name, cause |-> cause]

\* Exception(f"Error executing query '{query_name}': {type(e)}: {e}")
BatchError(query_name, cause) == Error("Exception", query_name, cause)

\* variant: a loop that passes over a future whose result cannot be taken
RECURSIVE HarvestSkipsFailures(_, _, _, _)
HarvestSkipsFailures(futs, i, results_dict, qs) ==
    IF i > Len(futs) THEN [ok |-> TRUE, results |-> results_dict, queries |-> qs]
    ELSE IF futs[i].st = "returned" /\ futs[i].value # None
    THEN HarvestSkipsFailures(futs, i + 1,
                              DictSet(results_dict, futs[i].name, futs[i].value[1]),
                              DictPop(qs, futs[i].name))
    ELSE HarvestSkipsFailures(futs, i + 1, results_dict, qs)

RECURSIVE Harvest(_, _, _, _)
Harvest(futs, i, results_dict, qs) ==
    IF i > Len(futs) THEN [ok |-> TRUE, results |-> results_dict, queries |-> qs]
    ELSE IF futs[i].st = "returned" /\ futs[i].value # None
    THEN Harvest(futs, i + 1, DictSet(results_dict, futs[i].name, futs[i].value[1]),
                 DictPop(qs, futs[i].name))
    ELSE [ok |-> FALSE, error |-> BatchError(futs[i].name, HarvestCause(futs[i])),
          queries |-> qs]

_run_queries_in_parallel(futs, qs) == Harvest(futs, 1, <<>>, qs)

(***************************************************************************)
(* The resolver: discovery queries, classification, resolution queries,    *)
(* name assembly.                                                          *)
(***************************************************************************)
ProfileFilter(names) == <<ListFilter("Parent.Profile.Name", names)>>

DiscoveryBuilds(names) ==
    <<[key |-> SETUP_ENTITY_QUERY_NAME,
       value |-> _build_query(<<"SetupEntityId", "SetupEntityType">>, "SetupEntityAccess",
                              ProfileFilter(names))],
      [key |-> SOBJECT_QUERY_NAME,
       value |-> _build_query(<<"SObjectType">>, "ObjectPermissions", ProfileFilter(names))],
      [key |-> CUSTOM_TAB_QUERY_NAME,
       value |-> _build_query(<<"Name">>, "PermissionSetTabSetting",
                              ProfileFilter(names))]>>

\* the dict of built texts, or the first ValueError of a build
BuiltQueries(builds) ==
    LET bad == { i \in 1..Len(builds) : ~builds[i].value.ok }
    IN  IF bad = {}
        THEN [ok |-> TRUE,
              queries |-> [i \in 1..Len(builds) |->
                              [key |-> builds[i].key, value |-> builds[i].value.value]]]
        ELSE [ok |-> FALSE, error |-> builds[CHOOSE i \in bad : \A j \in bad : i <= j].value]

\* variant: classification without the membership test
IsAnyType(entity_type) == TRUE

\* entity_type in SETUP_ENTITY_TYPES.keys()
IsKnownType(entity_type) == entity_type \in DOMAIN SETUP_ENTITY_TYPES

EmptyBuckets == [entity_type \in DOMAIN SETUP_ENTITY_TYPES |-> <<>>]

\* setupEntityAccess_dict[entity_type].append(entity_id)
AppendToBucket(dict, entity_type, entity_id) ==
    IF entity_type \in DOMAIN dict
    THEN Returned([dict EXCEPT ![entity_type] = Append(@, entity_id)])
    ELSE Raised("KeyError", entity_type)

RECURSIVE Classify(_, _)
Classify(result_list, dict) ==
    IF Len(result_list) = 0 THEN Returned(dict)
    ELSE LET data == Head(result_list)
             added == AppendToBucket(dict, data.SetupEntityType, data.SetupEntityId)
         IN  IF IsKnownType(data.SetupEntityType)
             THEN IF added.ok THEN Classify(Tail(result_list), added.value) ELSE added
             ELSE Classify(Tail(result_list), dict)

\* variant: a resolution query for every descriptor
NeedsQueryAlways(dict, entity_type) == TRUE

\* len(setupEntityAccess_dict[entity_type]) != 0
NeedsQuery(dict, entity_type) == Len(dict[entity_type]) # 0

ResolutionBuilds(dict) ==
    LET wanted == SelectSeq(SETUP_ENTITY_KEYS, LAMBDA entity_type : NeedsQuery(dict, entity_type))
    IN  [i \in 1..Len(wanted) |->
            [key |-> wanted[i],
             value |-> _build_query(SETUP_ENTITY_TYPES[wanted[i]].columns,
                                    SETUP_ENTITY_TYPES[wanted[i]].table_name,
                                    <<ListFilter(SETUP_ENTITY_TYPES[wanted[i]].id_field,
                                                 dict[wanted[i]])>>)]]

\* variant: the prefix is used whenever the field is present
MemberNameWithoutNoneTest(item, data) ==
    IF "NamespacePrefix" \in DOMAIN item
    THEN item["NamespacePrefix"] \o "__" \o item[data.columns[1]]
    ELSE item[data.columns[1]]

\* the member identifier of one resolved row
MemberName(item, data) ==
    IF "NamespacePrefix" \in DOMAIN item /\ item["NamespacePrefix"] # NULL
    THEN item["NamespacePrefix"] \o "__" \o item[data.columns[1]]
    ELSE item[data.columns[1]]

MemberNames(rows, data) == [i \in 1..Len(rows) |-> MemberName(rows[i], data)]

\* variant: the list of a category is started afresh for every descriptor
AddMembersAfresh(extracted_values, category, members) ==
    DictSet(extracted_values, category, members)

\* extracted_values.setdefault(category, []) followed by the appends
AddMembers(extracted_values, category, members) ==
    IF category \in DictKeys(extracted_values)
    THEN DictSet(extracted_values, category, DictGet(extracted_values, category) \o members)
    ELSE DictSet(extracted_values, category, members)

\* variant: members reported under the setup entity type
CategoryIsEntityType(entity_type, data) == entity_type

\* the key of extracted_values a descriptor reports under
Category(entity_type, data) == data.package_xml_name

RECURSIVE ExtractValues(_, _, _)
ExtractValues(result, i, extracted_values) ==
    IF i > Len(SETUP_ENTITY_KEYS) THEN extracted_values
    ELSE LET entity_type == SETUP_ENTITY_KEYS[i]
             data == SETUP_ENTITY_TYPES[entity_type]
         IN  IF entity_type \in DictKeys(result)
             THEN ExtractValues(result, i + 1,
                      AddMembers(extracted_values, Category(entity_type, data),
                                 MemberNames(DictGet(result, entity_type), data)))
             ELSE ExtractValues(result, i + 1, extracted_values)

_process_sObject_results(result_list) ==
    <<[key |-> SOBJECT_TYPE,
       value |-> [i \in 1..Len(result_list) |-> result_list[i].SobjectType]]>>

\* variant: no category for an empty row list
CustomTabResultsWhenAny(result_list) ==
    IF Len(result_list) = 0 THEN <<>>
    ELSE <<[key |-> CUSTOM_TAB_TYPE,
            value |-> [i \in 1..Len(result_list) |-> result_list[i].Name]]>>

_process_customTab_results(result_list) ==
    <<[key |-> CUSTOM_TAB_TYPE,
       value |-> [i \in 1..Len(result_list) |-> result_list[i].Name]]>>

\* result[name] of a dict
Lookup(d, k) == IF k \in DictKeys(d) THEN Returned(DictGet(d, k)) ELSE Raised("KeyError", k)

\* the three updates of permissionable_entities
PermissionableEntities(phase1, phase2) ==
    LET sObject == Lookup(phase1, SOBJECT_QUERY_NAME)
        customTab == Lookup(phase1, CUSTOM_TAB_QUERY_NAME)
    IN  IF ~sObject.ok THEN sObject
        ELSE IF ~customTab.ok THEN customTab
        ELSE Returned(DictUpdate(DictUpdate(ExtractValues(phase2, 1, <<>>),
                                            _process_sObject_results(sObject.value)),
                                 _process_customTab_results(customTab.value)))

\* _run_task: {**permissionable_entities, **{"Profile": self.profiles}}
EntitiesToBeRetrieved(permissionable_entities, names) ==
    DictUpdate(permissionable_entities, <<[key |-> "Profile", value |-> names]>>)

Init ==
    /\ pc = "start"
    /\ profiles = <<"Admin">>
    /\ batch = 0
    /\ queries = <<>>
    /\ futures = <<>>
    /\ results = None
    /\ discovery = None
    /\ buckets = None
    /\ entities = None
    /\ error = None
    /\ faults = 0
    /\ args = None

(***************************************************************************)
(* The main thread.                                                        *)
(***************************************************************************)
\* _retrieve_permissionable_entities up to the first batch call
RetrievePermissionableEntities ==
    /\ pc = "start"
    /\ LET built == BuiltQueries(DiscoveryBuilds(profiles))
       IN  IF built.ok
           THEN /\ pc' = "submit"
                /\ batch' = 1
                /\ queries' = built.queries
                /\ error' = error
           ELSE /\ pc' = "raised"
                /\ error' = Some(Error(built.error.kind, "", built.error.msg))
                /\ UNCHANGED <<batch, queries>>
    /\ UNCHANGED <<profiles, futures, results, discovery, buckets, entities, faults, args>>

\* executor.submit(self._run_query, query) for the next entry of queries
Submit ==
    /\ pc = "submit"
    /\ Len(futures) < Len(queries)
    /\ futures' = Append(futures, SubmitFuture(queries[Len(futures) + 1]))
    /\ UNCHANGED <<pc, profiles, batch, queries, results, discovery, buckets, entities,
                   error, faults, args>>

\* the pool is shut down and the futures are harvested
RunQueriesInParallelEnds ==
    /\ pc = "submit"
    /\ ExecutorJoined(futures, queries)
    /\ LET h == _run_queries_in_parallel(futures, queries)
       IN  /\ queries' = h.queries
           /\ IF h.ok
              THEN /\ results' = Some(h.results)
                   /\ pc' = CASE batch = 1 -> "classify"
                               [] batch = 2 -> "assemble"
                               [] OTHER -> "called"
                   /\ error' = error
              ELSE /\ results' = None
                   /\ pc' = "raised"
                   /\ error' = Some(h.error)
    /\ UNCHANGED <<profiles, batch, futures, discovery, buckets, entities, faults, args>>

\* _process_setupEntityAccess_results up to the second batch call
ProcessSetupEntityAccess ==
    /\ pc = "classify"
    /\ discovery' = results
    /\ LET rows == Lookup(results[1], SETUP_ENTITY_QUERY_NAME)
           dict == IF rows.ok THEN Classify(rows.value, EmptyBuckets) ELSE rows
           built == IF dict.ok THEN BuiltQueries(ResolutionBuilds(dict.value))
                    ELSE [ok |-> FALSE, error |-> dict]
       IN  IF built.ok
           THEN /\ buckets' = Some(dict.value)
                /\ queries' = built.queries
                /\ batch' = 2
                /\ futures' = <<>>
                /\ results' = None
                /\ pc' = "submit"
                /\ error' = error
           ELSE /\ pc' = "raised"
                /\ error' = Some(Error(built.error.kind, "", built.error.msg))
                /\ UNCHANGED <<buckets, queries, batch, futures, results>>
    /\ UNCHANGED <<profiles, entities, faults, args>>

\* the rest of _process_setupEntityAccess_results and of
\* _retrieve_permissionable_entities
AssembleEntities ==
    /\ pc = "assemble"
    /\ LET merged == PermissionableEntities(discovery[1], results[1])
       IN  IF merged.ok
           THEN /\ entities' = Some(merged.value)
                /\ pc' = "returned"
                /\ error' = error
           ELSE /\ pc' = "raised"
                /\ error' = Some(Error(merged.kind, "", merged.msg))
                /\ entities' = entities
    /\ UNCHANGED <<profiles, batch, queries, futures, results, discovery, buckets, faults,
                   args>>

\* _run_task adds the Profile category
RunTask ==
    /\ pc = "returned"
    /\ entities' = Some(EntitiesToBeRetrieved(entities[1], profiles))
    /\ pc' = "done"
    /\ UNCHANGED <<profiles, batch, queries, futures, results, discovery, buckets, error,
                   faults, args>>

(***************************************************************************)
(* The worker threads and the two endpoints.                               *)
(***************************************************************************)
workerFrame ==
    <<pc, profiles, batch, queries, results, discovery, buckets, entities, error, args>>

StartQuery(i) ==
    /\ CanStart(futures, i)
    /\ futures' = [futures EXCEPT ![i].st = "sf.query"]
    /\ UNCHANGED <<workerFrame, faults>>

SfQueryReturns(i) ==
    /\ futures[i].st = "sf.query"
    /\ \E rows \in OrgAnswers(futures[i].query) :
          futures' = [futures EXCEPT ![i] = AfterSyncReturn(futures[i], rows)]
    /\ UNCHANGED <<workerFrame, faults>>

\* the number of queries of the batch that have taken the bulk path
Refusals(futs) == Cardinality({ j \in 1..Len(futs) : FellBack(futs[j]) })

SfQueryRaises(i) ==
    /\ futures[i].st = "sf.query"
    /\ faults < MaxFaults
    /\ \E kind \in SyncErrors :
          /\ kind = "SalesforceGeneralError" => Refusals(futures) < MaxFallbacks
          /\ futures' = [futures EXCEPT ![i] = AfterSyncRaise(futures[i], kind)]
          /\ faults' = IF IsFallbackError(kind) THEN faults ELSE faults + 1
    /\ UNCHANGED workerFrame

CreateQueryJob(i) ==
    /\ futures[i].st = "create_query_job"
    /\ futures' = [futures EXCEPT ![i] = AfterCreateJob(futures[i])]
    /\ UNCHANGED <<workerFrame, faults>>

BulkQuery(i) ==
    /\ futures[i].st = "bulk.query"
    /\ futures' = [futures EXCEPT ![i] = AfterBulkQuery(futures[i])]
    /\ UNCHANGED <<workerFrame, faults>>

WaitForBatch(i) ==
    /\ futures[i].st = "wait_for_batch"
    /\ futures' = [futures EXCEPT ![i] = AfterWaitForBatch(futures[i])]
    /\ UNCHANGED <<workerFrame, faults>>

CloseJob(i) ==
    /\ futures[i].st = "close_job"
    /\ futures' = [futures EXCEPT ![i] = AfterCloseJob(futures[i])]
    /\ UNCHANGED <<workerFrame, faults>>

GetAllResults(i) ==
    /\ futures[i].st = "get_all_results"
    /\ \E rows \in OrgAnswers(futures[i].query) :
          \E pages \in BulkPagings(rows) :
             futures' = [futures EXCEPT ![i] = AfterGetResults(futures[i], pages)]
    /\ UNCHANGED <<workerFrame, faults>>

BulkCalls ==
    [create_query_job |-> "bulk.create_query_job", wait_for_batch |-> "bulk.wait_for_batch",
     close_job |-> "bulk.close_job",
     get_all_results |-> "bulk.get_all_results_for_query_batch"]

BulkCallOf(st) == IF st = "bulk.query" THEN "bulk.query" ELSE BulkCalls[st]

BulkCallRaises(i) ==
    /\ futures[i].st \in (DOMAIN BulkCalls \cup {"bulk.query"})
    /\ faults < MaxFaults
    /\ futures' = [futures EXCEPT ![i] = AfterBulkRaise(futures[i], BulkCallOf(futures[i].st))]
    /\ faults' = faults + 1
    /\ UNCHANGED workerFrame

Next ==
    \/ RetrievePermissionableEntities
    \/ Submit
    \/ RunQueriesInParallelEnds
    \/ ProcessSetupEntityAccess
    \/ AssembleEntities
    \/ RunTask
    \/ \E i \in 1..Len(futures) : StartQuery(i)
    \/ \E i \in 1..Len(futures) : SfQueryReturns(i)
    \/ \E i \in 1..Len(futures) : SfQueryRaises(i)
    \/ \E i \in 1..Len(futures) : CreateQueryJob(i)
    \/ \E i \in 1..Len(futures) : BulkQuery(i)
    \/ \E i \in 1..Len(futures) : WaitForBatch(i)
    \/ \E i \in 1..Len(futures) : CloseJob(i)
    \/ \E i \in 1..Len(futures) : GetAllResults(i)
    \/ \E i \in 1..Len(futures) : BulkCallRaises(i)

Spec == Init /\ [][Next]_vars


(***************************************************************************)
(* _build_query and _run_queries_in_parallel called on their own, by a     *)
(* caller that builds a batch from any arguments or hands in any query     *)
(* texts.                                                                  *)
(***************************************************************************)
Columns == { <<>>, <<"A">>, <<"A", "B">> }

TableNames == { "", "T" }

ScalarFilter(key, value) == [key |-> key, list |-> FALSE, value |-> value]

Wheres ==
    { <<>>, <<ScalarFilter("X", "1")>>, <<ListFilter("X", <<"1", "2">>)>>,
      <<ListFilter("X", <<"1", "2">>), ScalarFilter("Y", "v")>> }

BuildArgs == [columns : Columns, table_name : TableNames, where : Wheres]

ValidArgs ==
    [columns |-> <<"A", "B">>, table_name |-> "T", where |-> <<ListFilter("X", <<"1", "2">>)>>]

\* the batches a caller builds: one query, or a valid query and then one more
BuildBatches == { <<a>> : a \in BuildArgs } \cup { <<ValidArgs, a>> : a \in BuildArgs }

\* query texts handed to the batch call as they are (words separated by spaces)
QueryTexts ==
    { "SELECT Id from Account WHERE Name='x'", "SELECT Id FROM Account",
      "select Name from   Contact ", "SELECT Id", "", "SELECT Id from",
      "SELECT FromDate FROM Account", "SELECT FromDate" }

\* the batches of texts a caller hands in: one query, or a query and one more
TextBatches ==
    { <<t>> : t \in QueryTexts } \cup { <<"SELECT Id FROM Account", t>> : t \in QueryTexts }

QueryNames == <<"q1", "q2">>

CallInit ==
    /\ pc = "call"
    /\ profiles = <<>>
    /\ batch = 0
    /\ queries = <<>>
    /\ futures = <<>>
    /\ results = None
    /\ discovery = None
    /\ buckets = None
    /\ entities = None
    /\ error = None
    /\ faults = 0
    /\ \/ \E b \in BuildBatches : args = Some([call |-> "_build_query", batch |-> b])
       \/ \E b \in TextBatches :
             args = Some([call |-> "_run_queries_in_parallel", batch |-> b])

\* the caller builds every query of its batch, then makes the batch call
BuildQueries ==
    /\ pc = "call"
    /\ args[1].call = "_build_query"
    /\ LET b == args[1].batch
           built == BuiltQueries([i \in 1..Len(b) |->
                        [key |-> QueryNames[i],
                         value |-> _build_query(b[i].columns, b[i].table_name, b[i].where)]])
       IN  IF built.ok
           THEN /\ pc' = "submit"
                /\ batch' = 3
                /\ queries' = built.queries
                /\ error' = error
           ELSE /\ pc' = "raised"
                /\ error' = Some(Error(built.error.kind, "", built.error.msg))
                /\ UNCHANGED <<batch, queries>>
    /\ UNCHANGED <<profiles, futures, results, discovery, buckets, entities, faults, args>>

\* the caller makes the batch call with the texts it has
RunQueries ==
    /\ pc = "call"
    /\ args[1].call = "_run_queries_in_parallel"
    /\ pc' = "submit"
    /\ batch' = 3
    /\ queries' = [i \in 1..Len(args[1].batch) |->
                      [key |-> QueryNames[i], value |-> args[1].batch[i]]]
    /\ UNCHANGED <<profiles, futures, results, discovery, buckets, entities, error, faults,
                   args>>

CallNext ==
    \/ BuildQueries
    \/ RunQueries
    \/ Submit
    \/ RunQueriesInParallelEnds
    \/ \E i \in 1..Len(futures) : StartQuery(i)
    \/ \E i \in 1..Len(futures) : SfQueryReturns(i)
    \/ \E i \in 1..Len(futures) : SfQueryRaises(i)
    \/ \E i \in 1..Len(futures) : CreateQueryJob(i)
    \/ \E i \in 1..Len(futures) : BulkQuery(i)
    \/ \E i \in 1..Len(futures) : WaitForBatch(i)
    \/ \E i \in 1..Len(futures) : CloseJob(i)
    \/ \E i \in 1..Len(futures) : GetAllResults(i)
    \/ \E i \in 1..Len(futures) : BulkCallRaises(i)

CallSpec == CallInit /\ [][CallNext]_vars

\* every endpoint call returns or raises in the end, a free pool thread takes
\* the next work item, and the main thread runs on
LiveCallSpec == CallSpec /\ WF_vars(CallNext)

(***************************************************************************)
(* Properties.                                                             *)
(***************************************************************************)
Futures == { futures[i] : i \in 1..Len(futures) }

\* the current _run_queries_in_parallel call has returned or raised
BatchEnded == pc \notin {"start", "submit"} /\ batch > 0

BatchReturned == BatchEnded /\ results # None

BatchRaised == pc = "raised" /\ error # None /\ error[1].kind = "Exception"

\* the rows the endpoints produced for a query: the sync answer, or all the
\* result pages of its bulk batch
QueryRows(f) == IF f.pages # None THEN Flatten(f.pages[1]) ELSE f.value[1]

\* a query fails: its sync attempt raised something other than the general
\* error, or its bulk fallback raised
QueryFailed(f) == f.st = "raised"

Count(log, call) == Cardinality({ k \in 1..Len(log) : log[k] = call })

\* C1: if at least one query of a batch fails (its sync attempt raises another
\* error than the general error, or its bulk fallback raises), the batch call
\* raises a batch failure that names a failing query, and no mapping, not even
\* a partial one, is returned, so that no category mapping is returned either.
C1_FailureNamesAFailingQuery ==
    (BatchEnded /\ \E f \in Futures : QueryFailed(f))
        => /\ BatchRaised
           /\ \E f \in Futures : f.name = error[1].query_name /\ QueryFailed(f)
           /\ results = None
           /\ entities = None

\* C2: when all queries of a batch succeed, whatever the order in which the
\* workers complete them, the call returns a mapping whose keys are exactly the
\* submitted names and that maps each name to the rows of its own query.
C2_AllNamesWithTheirOwnRows ==
    (BatchEnded /\ \A f \in Futures : f.st = "returned")
        => /\ BatchReturned
           /\ DictKeys(results[1]) = { f.name : f \in Futures }
           /\ \A f \in Futures : DictGet(results[1], f.name) = QueryRows(f)

\* C3: at most 4 queries of a batch are started and not yet returned or
\* raised, for batches of any size; the others wait for a free worker.
C3_AtMostFourInFlight == InFlight(futures) <= 4

C3_Witness ==
    /\ InFlight(futures) = 4
    /\ \E f \in Futures : f.st = "queued"

\* C4: when the sync endpoint raises the general error for one query and the
\* bulk path for it succeeds, the batch result maps the query's name to the
\* rows obtained through the bulk path, as for a sync success, and the other
\* queries' results are what they are without the fallback.
C4_FallbackRowsMerged ==
    \A f \in Futures :
        (/\ BatchEnded
         /\ f.sync = "SalesforceGeneralError" /\ f.st = "returned"
         /\ \A g \in Futures \ {f} : g.sync = "returned")
            => /\ BatchReturned
               /\ DictGet(results[1], f.name) = QueryRows(f)
               /\ \A g \in Futures \ {f} : DictGet(results[1], g.name) = g.value[1]

\* C5: for every query, the sync endpoint is called once and before any bulk
\* step; a bulk job is created at most once and only after that sync call
\* raised the general error; no step is repeated on either endpoint.
C5_SyncOnceThenBulkOnlyOnGeneralError ==
    \A f \in Futures :
        /\ \A k \in 1..Len(f.log) : Count(f.log, f.log[k]) = 1
        /\ f.log # <<>> => f.log[1] = "sf.query"
        /\ Finished(f) => Count(f.log, "sf.query") = 1
        /\ Len(f.log) > 1 => f.sync = "SalesforceGeneralError"
        /\ f.job # "none" => Count(f.log, "bulk.create_query_job") = 1

C5_Witness ==
    \E f \in Futures : Finished(f) /\ f.job # "none"

DiscoveryNames == {"setupEntityAccess", "sObject", "customTab"}

Started(f) == f.st # "queued"

\* C6: no resolution query is sent to an endpoint before the three discovery
\* queries have all completed successfully; after a failed discovery query
\* none is ever sent.
C6_ResolutionAfterDiscovery ==
    \A f \in Futures :
        (f.name \notin DiscoveryNames /\ Started(f))
            => discovery # None /\ DictKeys(discovery[1]) = DiscoveryNames

C6_Witness ==
    \E f \in Futures : f.name \notin DiscoveryNames /\ Started(f)

\* the setup-entity-access rows the discovery batch returned
SetupRows == DictGet(discovery[1], "setupEntityAccess")

\* the ids of the rows of one type, in row order
IdsOfType(rows, type) ==
    LET sel == SelectSeq(rows, LAMBDA r : r.SetupEntityType = type)
    IN  [i \in 1..Len(sel) |-> sel[i].SetupEntityId]

KnownTypes ==
    {"ApexClass", "ApexPage", "CustomPermission", "TabSet", "ConnectedApplication",
     "ExternalDataSource", "FlowDefinition"}

\* C7: a resolution query is built for a descriptor exactly when its bucket
\* is non-empty, so that the number of queries submitted is the number of
\* non-empty buckets (0 to 7), and each query filters its descriptor's id
\* field by exactly the ids of that bucket.
C7_OneQueryPerNonEmptyBucket ==
    (batch = 2 /\ pc = "submit")
        => LET nonEmpty == { t \in KnownTypes : IdsOfType(SetupRows, t) # <<>> }
           IN  /\ \A t \in KnownTypes : buckets[1][t] = IdsOfType(SetupRows, t)
               /\ DictKeys(queries) = nonEmpty
               /\ Len(queries) = Cardinality(nonEmpty)
               /\ Len(queries) \in 0..7
               /\ \A i \in 1..Len(queries) :
                     LET data == SETUP_ENTITY_TYPES[queries[i].key]
                         ids == IdsOfType(SetupRows, queries[i].key)
                     IN  queries[i].value
                            = "SELECT " \o StrJoin(", ", data.columns)
                                 \o " FROM " \o data.table_name
                                 \o " WHERE " \o data.id_field \o " IN ("
                                 \o StrJoin(", ", [k \in 1..Len(ids) |->
                                                     "'" \o ids[k] \o "'"])
                                 \o ")"

C7_Witness ==
    /\ batch = 2 /\ pc = "submit"
    /\ Len(queries) = 1
    /\ \E t \in KnownTypes : Len(buckets[1][t]) = 2
    /\ \E t \in KnownTypes : buckets[1][t] = <<>>

UnknownRows ==
    { r \in Range(SetupRows) : r.SetupEntityType \notin KnownTypes }

Mentions(text, id) == StrFind(text, id) # -1

\* C8: a setup-entity-access row of a type that is not one of the 7 known
\* types has its id in no bucket, in no resolution query and in no output
\* category, and the resolution call does not fail because of it.
C8_UnknownTypeRowsDropped ==
    discovery # None
        => /\ error # None => error[1].kind = "Exception"
           /\ \A r \in UnknownRows :
                 /\ buckets # None
                       => \A t \in DOMAIN buckets[1] :
                             r.SetupEntityId \notin Range(buckets[1][t])
                 /\ (batch = 2 /\ pc = "submit")
                       => \A i \in 1..Len(queries) :
                             ~Mentions(queries[i].value, r.SetupEntityId)
                 /\ entities # None
                       => \A i \in 1..Len(entities[1]) :
                             \A member \in Range(entities[1][i].value) :
                                ~Mentions(member, r.SetupEntityId)

C8_Witness ==
    /\ pc = "done"
    /\ UnknownRows # {}
    /\ Len(futures) > 0

DescriptorCategories ==
    {"ApexClass", "ApexPage", "CustomPermission", "CustomApplication",
     "ExternalDataSource", "Flow"}

\* C9: every key of the mapping _retrieve_permissionable_entities returns is
\* the manifestCategory of one of the 7 descriptors, or CustomObject, or
\* CustomTab; once the caller has added the profile category the only further
\* key is Profile.
C9_OnlyKnownCategories ==
    /\ entities # None => pc \in {"returned", "done"}
    /\ pc = "returned"
          => DictKeys(entities[1]) \subseteq
                DescriptorCategories \cup {"CustomObject", "CustomTab"}
    /\ pc = "done"
          => /\ DictKeys(entities[1]) \subseteq
                   DescriptorCategories \cup {"CustomObject", "CustomTab", "Profile"}
             /\ "Profile" \in DictKeys(entities[1])

C9_Witness ==
    /\ pc = "done"
    /\ {"CustomApplication", "Flow"} \subseteq DictKeys(entities[1])

\* the member a resolved row is to be reported as
ExpectedMember(row, primary) ==
    IF "NamespacePrefix" \notin DOMAIN row THEN row[primary]
    ELSE IF row["NamespacePrefix"] = NULL THEN row[primary]
    ELSE row["NamespacePrefix"] \o "__" \o row[primary]

\* the members of a category: those of each descriptor reporting under it, in
\* descriptor order, each in the order of the rows returned
RECURSIVE ExpectedMembers(_, _)
ExpectedMembers(category, i) ==
    IF i > Len(SETUP_ENTITY_KEYS) THEN <<>>
    ELSE LET type == SETUP_ENTITY_KEYS[i]
             data == SETUP_ENTITY_TYPES[type]
             rows == IF type \in DictKeys(results[1]) /\ data.package_xml_name = category
                     THEN DictGet(results[1], type) ELSE <<>>
         IN  [k \in 1..Len(rows) |-> ExpectedMember(rows[k], data.columns[1])]
                \o ExpectedMembers(category, i + 1)

\* C10: the member reported for a resolved row is prefix + "__" + primary
\* column value when the row has a non-null namespace prefix, and the primary
\* column value alone when the prefix is null or absent, which is never an
\* error; members are appended to the category's list in row order.
C10_MemberNames ==
    /\ pc \in {"returned", "done"}
          => \A category \in DescriptorCategories :
                category \in DictKeys(entities[1])
                   => DictGet(entities[1], category) = ExpectedMembers(category, 1)
    /\ (batch = 2 /\ BatchReturned) => pc # "raised"

C10_Witness ==
    /\ pc = "done"
    /\ "CustomApplication" \in DictKeys(entities[1])
    /\ DictGet(entities[1], "CustomApplication") = <<"ns__AppMenuItem_e1", "AppMenuItem_e2">>

\* the categories whose descriptors include one with a non-empty bucket
BucketCategories ==
    { SETUP_ENTITY_TYPES[t].package_xml_name :
         t \in { u \in KnownTypes : buckets[1][u] # <<>> } }

\* C11: the mapping a successful resolution call returns always has the
\* CustomObject and CustomTab categories, holding the object-type values and
\* the tab names of the discovery rows in order (possibly none), and has a
\* setup-entity category exactly when a descriptor reporting under it had a
\* non-empty bucket.
C11_CategoriesOfASuccessfulCall ==
    pc = "returned"
        => LET sObject == DictGet(discovery[1], "sObject")
               customTab == DictGet(discovery[1], "customTab")
           IN  /\ {"CustomObject", "CustomTab"} \subseteq DictKeys(entities[1])
               /\ DictGet(entities[1], "CustomObject")
                      = [i \in 1..Len(sObject) |-> sObject[i].SobjectType]
               /\ DictGet(entities[1], "CustomTab")
                      = [i \in 1..Len(customTab) |-> customTab[i].Name]
               /\ DictKeys(entities[1]) \ {"CustomObject", "CustomTab"} = BucketCategories
               /\ Len(entities[1]) = Cardinality(DictKeys(entities[1]))

C11_Witness ==
    /\ pc = "returned"
    /\ DictGet(entities[1], "CustomTab") = <<>>
    /\ DictGet(entities[1], "CustomObject") = <<"Account", "Contact">>
    /\ BucketCategories = {"Flow"}
    /\ DictKeys(entities[1]) = {"Flow", "CustomObject", "CustomTab"}

\* a function called on its own
Calling(name) == args # None /\ args[1].call = name

\* one filter condition as text
ConditionText(entry) ==
    IF entry.list
    THEN entry.key \o " IN ("
            \o StrJoin(", ", [k \in 1..Len(entry.value) |-> "'" \o entry.value[k] \o "'"])
            \o ")"
    ELSE entry.key \o " = '" \o entry.value \o "'"

\* the text for a column list, a table name and a filter
QueryTextOf(a) ==
    "SELECT " \o StrJoin(", ", a.columns) \o " FROM " \o a.table_name
       \o (IF Len(a.where) = 0 THEN ""
           ELSE " WHERE " \o StrJoin(" AND ", [k \in 1..Len(a.where) |->
                                                 ConditionText(a.where[k])]))

\* C12: for a non-empty column list and table name, _build_query returns
\* "SELECT <columns joined by ', '> FROM <table>", followed only when there is
\* a filter condition by " WHERE " and the conditions joined by " AND "; with
\* no condition nothing follows the table name.
C12_QueryText ==
    (Calling("_build_query") /\ pc = "submit")
        => \A i \in 1..Len(queries) : queries[i].value = QueryTextOf(args[1].batch[i])

\* a column list or a table name of the batch is empty
InvalidArgs(a) == Len(a.columns) = 0 \/ Len(a.table_name) = 0

\* C13: a _build_query call with an empty column list or an empty table name
\* fails with ValueError, before any endpoint call is made for the batch being
\* built: no query of that batch is ever submitted.
C13_InvalidSpecFailsBeforeAnyCall ==
    (Calling("_build_query") /\ pc # "call"
     /\ \E i \in 1..Len(args[1].batch) : InvalidArgs(args[1].batch[i]))
        => /\ pc = "raised"
           /\ error # None /\ error[1].kind = "ValueError"
           /\ futures = <<>>
           /\ queries = <<>>
           /\ faults = 0

C13_Witness ==
    /\ Calling("_build_query") /\ pc = "raised"
    /\ Len(args[1].batch) = 2
    /\ ~InvalidArgs(args[1].batch[1])
    /\ InvalidArgs(args[1].batch[2])

\* the places of the FROM keyword among the words of a query text
FromWords(words) == { k \in 1..Len(words) : StrUpper(words[k]) = "FROM" }

\* the word after the first FROM keyword
WordAfterFrom(words) ==
    words[(CHOOSE k \in FromWords(words) : \A j \in FromWords(words) : k <= j) + 1]

\* C14: table-name extraction for the bulk fallback returns the word that
\* follows the FROM keyword, matched in any case; for a text without a FROM
\* clause it fails with ValueError and with no other error.
C14_TableNameFollowsFrom ==
    \A f \in Futures :
        (Calling("_run_queries_in_parallel") /\ FellBack(f))
            => LET words == StrSplit(f.query)
               IN  /\ (\E k \in FromWords(words) : k < Len(words))
                         => /\ f.exc \notin {"ValueError", "IndexError"}
                            /\ f.table = WordAfterFrom(words)
                   /\ FromWords(words) = {}
                         => f.st = "raised" /\ f.exc = "ValueError"

\* C15: the row list returned for a query served by the bulk fallback holds
\* the rows of all result pages of its batch, in page order, for any number
\* of pages; with no page it is the empty list, not a failure.
C15_AllResultPages ==
    \A f \in Futures :
        (f.st = "returned" /\ f.pages # None)
            => /\ f.value = Some(Flatten(f.pages[1]))
               /\ BatchReturned => DictGet(results[1], f.name) = Flatten(f.pages[1])
               /\ BatchRaised => error[1].query_name # f.name

\* the calls of a query that takes the bulk fallback, in order
FallbackOrder ==
    <<"sf.query", "extract", "bulk.create_query_job", "bulk.query", "bulk.wait_for_batch",
      "bulk.close_job", "bulk.get_all_results_for_query_batch">>

\* C16: for a query that takes the bulk fallback the steps occur in the
\* order extract table name, create job, submit batch, wait, close job, fetch
\* result pages, each at most once; no page is fetched before the job is
\* closed, and a job that was created is closed before the fallback ends,
\* whether by returning rows or by raising.
C16_FallbackStepsAndJobClosed ==
    \A f \in Futures :
        FellBack(f)
            => /\ f.log = SubSeq(FallbackOrder, 1, Len(f.log))
               /\ f.pages # None => f.job = "closed"
               /\ (Finished(f) /\ f.job # "none") => f.job = "closed"

\* the name->text mapping the caller passed to the batch call
SubmittedQueries ==
    [i \in 1..Len(futures) |-> [key |-> futures[i].name, value |-> futures[i].query]]

\* C17: after _run_queries_in_parallel returns or raises, the mapping the
\* caller passed in holds exactly the entries it held before the call.
C17_CallerMappingUntouched ==
    (pc \in {"classify", "assemble", "called"} \/ BatchRaised)
        => queries = SubmittedQueries

\* C18: a batch call neither returns nor raises while a query of the batch is
\* in flight or not yet started, so a failure is reported only after every
\* other query has finished and a query that never completes blocks the call;
\* and if every endpoint call returns or raises in the end, so does the batch
\* call.
C18_BatchEndsWhenAllQueriesHave ==
    /\ [][(pc = "submit" /\ pc' # "submit")
            => /\ Len(futures) = Len(queries)
               /\ \A i \in 1..Len(futures) : Finished(futures[i])]_vars
    /\ (pc = "submit") ~> (pc # "submit")

C18_Witness ==
    /\ pc = "submit"
    /\ \E f \in Futures : f.st = "raised"
    /\ \E f \in Futures : Running(f)

\* the queries of the batch that failed, by position in the submission order
FailedAt == { i \in 1..Len(futures) : QueryFailed(futures[i]) }

\* C19: when two or more queries of one batch fail, the batch failure names
\* the failing query that comes first in the submission order of the batch,
\* whatever the order in which the workers finished or failed.
C19_FirstFailingInSubmissionOrder ==
    (BatchRaised /\ Cardinality(FailedAt) >= 2)
        => \E i \in FailedAt :
              /\ \A j \in FailedAt : i <= j
              /\ error[1].query_name = futures[i].name

\* the members resolved for one descriptor: one for each row its resolution
\* query returned, in row order
ResolvedMembers(type) ==
    LET rows == DictGet(results[1], type)
    IN  [k \in 1..Len(rows) |->
            ExpectedMember(rows[k], SETUP_ENTITY_TYPES[type].columns[1])]

\* C20: TabSet and ConnectedApplication report under the one category
\* CustomApplication; when both have non-empty buckets, two separate
\* resolution queries are run and the output has a single CustomApplication
\* list: the members resolved for TabSet in row order, then those resolved
\* for ConnectedApplication in row order, none lost or overwritten.
C20_CustomApplicationHoldsBoth ==
    /\ SETUP_ENTITY_TYPES["TabSet"].package_xml_name = "CustomApplication"
    /\ SETUP_ENTITY_TYPES["ConnectedApplication"].package_xml_name = "CustomApplication"
    /\ (/\ pc \in {"returned", "done"}
        /\ buckets[1]["TabSet"] # <<>>
        /\ buckets[1]["ConnectedApplication"] # <<>>)
          => /\ \A t \in {"TabSet", "ConnectedApplication"} :
                   /\ Cardinality({ i \in 1..Len(futures) : futures[i].name = t }) = 1
                   /\ \E f \in Futures :
                         /\ f.name = t
                         /\ "sf.query" \in Range(f.log)
                         /\ f.query = "SELECT " \o StrJoin(", ", SETUP_ENTITY_TYPES[t].columns)
                                         \o " FROM " \o SETUP_ENTITY_TYPES[t].table_name
                                         \o " WHERE " \o SETUP_ENTITY_TYPES[t].id_field
                                         \o " IN ("
                                         \o StrJoin(", ", [k \in 1..Len(buckets[1][t]) |->
                                                "'" \o buckets[1][t][k] \o "'"])
                                         \o ")"
             /\ Cardinality({ i \in 1..Len(entities[1]) :
                                 entities[1][i].key = "CustomApplication" }) = 1
             /\ DictGet(entities[1], "CustomApplication")
                    = ResolvedMembers("TabSet") \o ResolvedMembers("ConnectedApplication")

C20_Witness ==
    /\ pc = "returned"
    /\ buckets[1]["TabSet"] # <<>>
    /\ buckets[1]["ConnectedApplication"] # <<>>
    /\ ResolvedMembers("TabSet") # <<>>
    /\ ResolvedMembers("ConnectedApplication") # <<>>
    /\ Len(DictGet(entities[1], "CustomApplication")) = 2
====
